---- MODULE Spec2Model ----
(***************************************************************************)
(* Model of tutorial_poc.py (NarratoAI tutorial): the prerequisite check   *)
(* (check_prerequisites) and the orchestration around it (main).           *)
(*                                                                         *)
(* A printed line is a record [fmt, name, text]: fmt is the format string  *)
(* of the print call, name the value substituted for {name}/{title}, text  *)
(* the value substituted for {version}.  Text captured from a subprocess   *)
(* is a sequence of one-character strings.                                 *)
(***************************************************************************)
EXTENDS Integers, Sequences, FiniteSets

\* ---------------------------------------------------------------- bounds
MaxLen == 3          \* longest captured standard output, in characters
MaxElapsed == 6      \* longest running time of a version command, in time units

\* ------------------------------------------------------- program constants
Timeout == 5         \* timeout=5 passed to subprocess.run

\* tools = [("Docker", [...]), ("FFmpeg", [...])]
Tools == << [name |-> "Docker", cmd |-> <<"docker", "--version">>],
            [name |-> "FFmpeg", cmd |-> <<"ffmpeg", "-version">>] >>

N == Len(Tools)

\* the demo_* functions main calls, in call order, by section title
Demos == << "Complete Video Processing Workflow",
            "Docker Usage Examples",
            "Configuration Options",
            "Python API Examples",
            "Supported Features",
            "Storage and Requirements",
            "Quick Start Guide" >>

\* ------------------------------------------------- environment (subprocess)
\* bytes a child can write to its standard output and standard error; "0xff"
\* stands for a byte that is not valid in the encoding subprocess.run decodes
\* with
Chars == {"v", "\n"}
Bytes == Chars \cup {"0xff"}
ReturnCodes == {-1, 0, 1}
Killed == -9
Elapsed == Timeout..MaxElapsed

RECURSIVE StringsUpTo(_)
StringsUpTo(n) ==
    IF n = 0 THEN {<<>>}
    ELSE LET S == StringsUpTo(n - 1)
         IN  S \cup {Append(s, c) : s \in {t \in S : Len(t) = n - 1}, c \in Bytes}

Captured == StringsUpTo(MaxLen)

\* what the child writes to standard error, captured as well (capture_output)
CapturedErr == {<<>>, <<"v">>, <<"0xff">>}

\* text=True: the captured bytes are decoded; a byte of Chars decodes to the
\* same character, any other byte makes the decoder raise
Decodable(bytes) == \A j \in 1..Len(bytes) : bytes[j] \in Chars

NoOutcome == [kind |-> "none", returncode |-> 0, elapsed |-> 0, closed |-> 0,
              stdout |-> <<>>, stderr |-> <<>>]

\* what one call of subprocess.run(cmd, capture_output=True, text=True,
\* timeout=5) does once the child process has been created.  The child exits
\* with status rc after e time units and the captured pipes reach end of
\* file after c time units (later than e when a background process keeps
\* them open).  run waits for both; when that takes longer than the timeout
\* it kills the child and raises TimeoutExpired, otherwise it decodes the
\* bytes captured from standard output and from standard error, which
\* raises UnicodeDecodeError when either holds an invalid byte, or gives the
\* text.
RunResult(rc, e, c, bytes, errbytes) ==
    LET closed == IF c < e THEN e ELSE c
        late == closed > Timeout
    IN  [kind |-> IF late THEN "TimeoutExpired"
                  ELSE IF ~(Decodable(bytes) /\ Decodable(errbytes))
                       THEN "UnicodeDecodeError"
                  ELSE "completed",
         returncode |-> IF e > Timeout THEN Killed ELSE rc,
         elapsed |-> e,
         closed |-> closed,
         stdout |-> IF late THEN <<>> ELSE bytes,
         stderr |-> IF late THEN <<>> ELSE errbytes]

RunOutcomes ==
    {RunResult(rc, e, c, bytes, errbytes) :
        rc \in ReturnCodes, e \in Elapsed, c \in Elapsed,
        bytes \in Captured, errbytes \in CapturedErr}

\* what it does when the child process cannot be created
SpawnFaults ==
    [kind : {"FileNotFoundError", "PermissionError"}, returncode : {0},
     elapsed : {0}, closed : {0}, stdout : {<<>>}, stderr : {<<>>}]

\* standard output is a terminal (line buffered) or a pipe or file (block
\* buffered), and encodes text as UTF-8 or as ASCII
Environments == [isatty : BOOLEAN, encoding : {"utf-8", "ascii"}]

\* ------------------------------------------------------- format strings
\* the check mark and the cross of the source are written [ok] and [x];
\* NonAscii names the format strings that hold such a character
FmtInstalled == "[ok] {name} is installed"
FmtVersion == "  {version}"
FmtNotWorking == "[x] {name} not found or not working"
FmtNotInstalled == "[x] {name} not installed"
FmtSummary == "{summary}"
FmtWarning == "  WARNING: Some prerequisites are missing. Please install them first."
FmtBody == "{body}"
NonAscii == {FmtInstalled, FmtNotWorking, FmtNotInstalled}
NonAsciiDemos == {"Complete Video Processing Workflow", "Supported Features",
                  "Storage and Requirements", "Quick Start Guide"}

\* --------------------------------------------------------- pure functions
Line(fmt, name, text) == [fmt |-> fmt, name |-> name, text |-> text]

print_line(out, fmt, name, text) == Append(out, Line(fmt, name, text))

\* print_section(title): three print calls
print_section(out, title) ==
    out \o << Line("\\n======", "", <<>>),
              Line("  {title}", title, <<>>),
              Line("======\\n", "", <<>>) >>

\* str.split(sep): the pieces of s between occurrences of sep
RECURSIVE SplitFrom(_, _, _, _)
SplitFrom(s, sep, k, cur) ==
    IF k > Len(s) THEN << cur >>
    ELSE IF s[k] = sep THEN << cur >> \o SplitFrom(s, sep, k + 1, <<>>)
    ELSE SplitFrom(s, sep, k + 1, Append(cur, s[k]))

Split(s, sep) == SplitFrom(s, sep, 1, <<>>)

\* version = result.stdout.split('\n')[0]
FirstLineWhole(stdout) == stdout
FirstLine(stdout) == Split(stdout, "\n")[1]

\* results[name] = value on a dict that keeps insertion order
DictValues(d) == [k \in 1..Len(d) |-> d[k][2]]
DictHas(d, key) == \E k \in 1..Len(d) : d[k][1] = key
DictGet(d, key) == d[CHOOSE k \in 1..Len(d) : d[k][1] = key][2]
DictSetSkipFalse(d, key, value) ==
    IF value THEN Append(d, <<key, value>>) ELSE d
DictSet(d, key, value) ==
    IF DictHas(d, key)
    THEN [k \in 1..Len(d) |-> IF d[k][1] = key THEN <<key, value>> ELSE d[k]]
    ELSE Append(d, <<key, value>>)

\* all(iterable)
RECURSIVE any(_)
any(vals) == IF vals = <<>> THEN FALSE ELSE (vals[1] \/ any(Tail(vals)))
RECURSIVE all(_)
all(vals) == IF vals = <<>> THEN TRUE ELSE (vals[1] /\ all(Tail(vals)))

\* if result.returncode == 0
ReturncodeOk(result) == result.returncode = 0

\* the print of a tool's status line inside the loop body
print_status(out, fmt, name) == print_line(out, fmt, name, <<>>)

\* the for loop moves to the next tool whatever the body did
NextToolRetry(i, recorded) == IF recorded THEN i + 1 ELSE i
NextTool(i, recorded) == i + 1

\* ----------------------------------------------------------------- state
VARIABLES pc,         \* position of the run
          i,          \* index into Tools of the loop of check_prerequisites
          d,          \* index into Demos of the next demo main calls
          results,    \* the dict results of check_prerequisites
          out,        \* the lines that have reached standard output
          buf,        \* the lines printed and still in sys.stdout's buffer
          prereq_ok,  \* main's local prereq_ok: <<>> before assignment, then <<b>>
          exitcode,   \* process exit status: <<>> while running, then <<code>>
          probe,      \* per tool: NotStarted, Running, Succeeded, Failed
          spawns,     \* per tool: number of subprocess.run calls made
          outcome,    \* per tool: what its subprocess.run call did
          env         \* the environment of the run, an element of Environments

vars == << pc, i, d, results, out, buf, prereq_ok, exitcode, probe, spawns,
           outcome, env >>

\* print(...) without flush: a terminal gets each line at once, a pipe or a
\* file gets nothing before the buffer is flushed (the whole output of a run
\* is smaller than the buffer, so that is at interpreter exit)
Write(lines) ==
    IF env.isatty
    THEN out' = out \o lines /\ buf' = buf
    ELSE out' = out /\ buf' = buf \o lines

\* interpreter exit flushes sys.stdout, after the lines given
WriteAndFlush(lines) ==
    /\ out' = out \o buf \o lines
    /\ buf' = <<>>

\* print raises UnicodeEncodeError when the encoding cannot hold the text
CanEncode(fmt) == env.encoding = "utf-8" \/ fmt \notin NonAscii

\* if not prereq_ok
ShouldWarnInverted == prereq_ok = <<TRUE>>
ShouldWarn == ~(prereq_ok = <<TRUE>>)

\* return 0 ; sys.exit(main())
MainReturnByReadiness == IF prereq_ok = <<TRUE>> THEN 0 ELSE 1
MainReturn == 0

Init ==
    /\ pc = "start"
    /\ i = 1
    /\ d = 1
    /\ results = <<>>
    /\ out = <<>>
    /\ buf = <<>>
    /\ prereq_ok = <<>>
    /\ exitcode = <<>>
    /\ probe = [k \in 1..N |-> "NotStarted"]
    /\ spawns = [k \in 1..N |-> 0]
    /\ outcome = [k \in 1..N |-> NoOutcome]
    /\ env \in Environments

\* main, lines 299-301: the title banner
Banner ==
    /\ pc = "start"
    /\ Write(<< Line("\\n{banner}", "", <<>>),
                Line("{subtitle}", "", <<>>),
                Line("======", "", <<>>) >>)
    /\ pc' = "check"
    /\ UNCHANGED << i, d, results, prereq_ok, exitcode, probe, spawns, outcome, env >>

\* check_prerequisites, lines 25-32: section header, results = {}
EnterCheck ==
    /\ pc = "check"
    /\ Write(print_section(<<>>, "Checking Prerequisites"))
    /\ results' = <<>>
    /\ i' = 1
    /\ pc' = "loop"
    /\ UNCHANGED << d, prereq_ok, exitcode, probe, spawns, outcome, env >>

\* an exception no except clause names leaves check_prerequisites and main:
\* traceback on standard error, exit status 1
Uncaught ==
    /\ pc' = "crashed"
    /\ exitcode' = <<1>>
    /\ WriteAndFlush(<<>>)
    /\ probe' = [probe EXCEPT ![i] = "Failed"]
    /\ UNCHANGED << i, results >>

\* lines 37-40: print the success line and the version, results[name] = True
SuccessBranch(name, stdout) ==
    IF CanEncode(FmtInstalled)
    THEN /\ Write(print_line(print_status(<<>>, FmtInstalled, name),
                             FmtVersion, "", FirstLine(stdout)))
         /\ results' = DictSet(results, name, TRUE)
         /\ probe' = [probe EXCEPT ![i] = "Succeeded"]
         /\ i' = NextTool(i, TRUE)
         /\ pc' = "loop"
         /\ UNCHANGED exitcode
    ELSE Uncaught

\* lines 42-43 (fmt = FmtNotWorking) and the except clause of lines 44-46
\* (fmt = FmtNotInstalled): print the failure line, results[name] = False
FailureBranch(name, fmt) ==
    IF CanEncode(fmt)
    THEN /\ Write(print_status(<<>>, fmt, name))
         /\ results' = DictSet(results, name, FALSE)
         /\ probe' = [probe EXCEPT ![i] = "Failed"]
         /\ i' = NextTool(i, FALSE)
         /\ pc' = "loop"
         /\ UNCHANGED exitcode
    ELSE Uncaught

\* line 35, the call of subprocess.run: the child is created and runs, or
\* creating it raises
Spawn ==
    /\ pc = "loop"
    /\ i <= N
    /\ spawns' = [spawns EXCEPT ![i] = @ + 1]
    /\ \/ /\ probe' = [probe EXCEPT ![i] = "Running"]
          /\ pc' = "running"
          /\ UNCHANGED << i, results, out, buf, exitcode, outcome >>
       \/ \E f \in SpawnFaults :
            /\ outcome' = [outcome EXCEPT ![i] = f]
            /\ IF f.kind = "FileNotFoundError"
               THEN FailureBranch(Tools[i].name, FmtNotInstalled)
               ELSE Uncaught
    /\ UNCHANGED << d, prereq_ok, env >>

\* lines 35-46: subprocess.run returns or raises, and the rest of the loop
\* body runs
Complete ==
    /\ pc = "running"
    /\ \E r \in RunOutcomes :
        LET name == Tools[i].name IN
        /\ outcome' = [outcome EXCEPT ![i] = r]
        /\ IF r.kind = "TimeoutExpired" THEN FailureBranch(name, FmtNotInstalled)
           ELSE IF r.kind = "UnicodeDecodeError" THEN Uncaught
           ELSE IF ReturncodeOk(r) THEN SuccessBranch(name, r.stdout)
           ELSE FailureBranch(name, FmtNotWorking)
    /\ UNCHANGED << d, prereq_ok, spawns, env >>

\* line 48 and line 304: return all(results.values()) ; prereq_ok = ...
Return ==
    /\ pc = "loop"
    /\ i > N
    /\ prereq_ok' = << all(DictValues(results)) >>
    /\ pc' = "demos"
    /\ UNCHANGED << i, d, results, out, buf, exitcode, probe, spawns, outcome, env >>

\* lines 307-313: the next demo_* function prints its section
Demo ==
    /\ pc = "demos"
    /\ d <= Len(Demos)
    /\ IF env.encoding = "utf-8" \/ Demos[d] \notin NonAsciiDemos
       THEN /\ Write(print_line(print_section(<<>>, Demos[d]), FmtBody, Demos[d], <<>>))
            /\ d' = d + 1
            /\ UNCHANGED << pc, exitcode >>
       ELSE /\ WriteAndFlush(print_section(<<>>, Demos[d]))
            /\ pc' = "crashed"
            /\ exitcode' = <<1>>
            /\ UNCHANGED d
    /\ UNCHANGED << i, results, prereq_ok, probe, spawns, outcome, env >>

\* lines 316-336: the summary section
Summary ==
    /\ pc = "demos"
    /\ d > Len(Demos)
    /\ Write(print_line(print_section(<<>>, "Quick Start Summary"), FmtSummary, "", <<>>))
    /\ pc' = "summarised"
    /\ UNCHANGED << i, d, results, prereq_ok, exitcode, probe, spawns, outcome, env >>

\* lines 338-343 and 347: the warning block, return 0, sys.exit
Finish ==
    /\ pc = "summarised"
    /\ IF ShouldWarn
       THEN WriteAndFlush(<< Line("\\n!!!!!!", "", <<>>),
                             Line(FmtWarning, "", <<>>),
                             Line("!!!!!!\\n", "", <<>>) >>)
       ELSE WriteAndFlush(<<>>)
    /\ exitcode' = << MainReturn >>
    /\ pc' = "done"
    /\ UNCHANGED << i, d, results, prereq_ok, probe, spawns, outcome, env >>

Next ==
    \/ Banner
    \/ EnterCheck
    \/ Spawn
    \/ Complete
    \/ Return
    \/ Demo
    \/ Summary
    \/ Finish

Spec == Init /\ [][Next]_vars

\* ------------------------------------------------ vocabulary of the claims
ToolName(k) == Tools[k].name
Recorded(k) == DictHas(results, ToolName(k))
Available(k) == Recorded(k) /\ DictGet(results, ToolName(k)) = TRUE
Probed(k) == outcome[k].kind # "none"
Finished(k) == probe[k] \in {"Succeeded", "Failed"}
StatusFmts == {FmtInstalled, FmtNotWorking, FmtNotInstalled}
Started(k) == outcome[k].kind \in {"completed", "TimeoutExpired", "UnicodeDecodeError"}
\* every line printed so far, whether or not it has left the buffer
Printed == out \o buf
StatusIdx(k) == {j \in 1..Len(Printed) : Printed[j].fmt \in StatusFmts
                                         /\ Printed[j].name = ToolName(k)}
\* the status lines of tool k that have reached standard output
StdoutStatusIdx(k) == {j \in 1..Len(out) : out[j].fmt \in StatusFmts
                                           /\ out[j].name = ToolName(k)}
DetailIdx == {j \in 1..Len(Printed) : Printed[j].fmt = FmtVersion}
DetailIdxOf(k) == {j \in DetailIdx : j > 1 /\ Printed[j - 1].fmt = FmtInstalled
                                           /\ Printed[j - 1].name = ToolName(k)}
WarningIdx == {j \in 1..Len(Printed) : Printed[j].fmt = FmtWarning}
SummaryIdx == {j \in 1..Len(Printed) : Printed[j].fmt = FmtSummary}
ReadinessComputed == prereq_ok # <<>>

\* the failure cause of a probed tool, in the taxonomy of the specification
Cause(k) ==
    IF outcome[k].kind = "FileNotFoundError" THEN "NotInstalled"
    ELSE IF outcome[k].kind = "TimeoutExpired" THEN "TimedOut"
    ELSE IF outcome[k].kind = "completed" /\ outcome[k].returncode # 0 THEN "NonZeroExit"
    ELSE "none"

\* p is the text of s before its first newline (all of s when it has none)
IsTextBeforeFirstNewline(p, s) ==
    /\ Len(p) <= Len(s)
    /\ \A j \in 1..Len(p) : p[j] = s[j] /\ p[j] # "\n"
    /\ (Len(p) < Len(s) => s[Len(p) + 1] = "\n")

\* ----------------------------------------------------------------- claims

\* C1: a probed tool (its command exited 0 in time, exited nonzero in time,
\* timed out or was not found) is recorded available exactly when its command
\* started, finished within the timeout and exited with status zero.
C1_AvailableIffExitZeroInTime ==
    \A k \in 1..N :
        Probed(k) =>
            (Available(k) <=> /\ Started(k)
                              /\ outcome[k].elapsed <= Timeout
                              /\ outcome[k].returncode = 0)

\* C2: a failure to create the process (of any kind) or a timeout is recorded
\* as available = false for that tool, no fault leaves check_prerequisites,
\* and once the loop is over every declared tool has been probed.
C2_ProbeFaultsAreContained ==
    /\ pc # "crashed"
    /\ \A k \in 1..N :
          outcome[k].kind \in {"FileNotFoundError", "PermissionError", "TimeoutExpired"}
              => (Recorded(k) /\ ~Available(k))
    /\ pc \notin {"start", "check", "loop", "running"} => \A k \in 1..N : spawns[k] = 1

\* C3: the boolean check_prerequisites returns is true exactly when no entry
\* of the report is false, wherever the false entry stands.
C3_OverallReadyIffAllEntriesTrue ==
    ReadinessComputed =>
        ((prereq_ok = <<TRUE>>) <=> ~(\E j \in 1..Len(results) : results[j][2] = FALSE))

C3_Witness ==
    /\ prereq_ok = <<FALSE>>
    /\ results = << <<"Docker", FALSE>>, <<"FFmpeg", TRUE>> >>

\* C4: when the overall boolean is computed (and from then on) the report
\* holds exactly one entry per declared tool, keyed by the tool's name, in
\* declaration order, whatever the probes did.
C4_ReportHasOneEntryPerTool ==
    ((pc = "loop" /\ i > N) \/ ReadinessComputed) =>
        /\ Len(results) = N
        /\ \A k \in 1..N : results[k][1] = ToolName(k)

C4_Witness ==
    /\ pc = "loop" /\ i > N
    /\ outcome[1].kind = "FileNotFoundError"
    /\ outcome[2].kind = "TimeoutExpired"
    /\ Len(results) = 2

\* C5: the warning block is printed only by a run that reached its end, such
\* a run has printed it exactly when overallReady is false, and the block
\* comes after the summary as the last three lines of the output.
C5_WarningIffNotReadyAndLast ==
    /\ (pc = "done" => ((WarningIdx # {}) <=> (prereq_ok = <<FALSE>>)))
    /\ (pc # "done" => WarningIdx = {})
    /\ \A w \in WarningIdx :
          /\ w = Len(Printed) - 1
          /\ buf = <<>>
          /\ \E q \in SummaryIdx : q < w

C5_Witness ==
    /\ pc = "done"
    /\ prereq_ok = <<FALSE>>
    /\ WarningIdx # {}

\* C6: every run of main that completes exits with status zero, whatever the
\* probes did and whatever the readiness boolean is.
C6_ExitCodeAlwaysZero ==
    pc = "done" => exitcode = <<0>>

C6_Witness ==
    /\ pc = "done"
    /\ prereq_ok = <<FALSE>>
    /\ exitcode = <<0>>

\* C7: two tools that failed for different causes (not installed, timed out,
\* nonzero exit) get failure lines with different messages.
C7_FailureMessagesDistinguishCauses ==
    \A a \in 1..N, b \in 1..N :
        (Cause(a) # "none" /\ Cause(b) # "none" /\ Cause(a) # Cause(b)) =>
            \A x \in StatusIdx(a), y \in StatusIdx(b) : Printed[x].fmt # Printed[y].fmt

\* C8: tools are probed one at a time in declaration order, and a tool's
\* status line has reached standard output from the step that records its
\* result, hence before the next tool's command is spawned; status lines
\* appear in declaration order.
C8_SequentialIncrementalStatus ==
    /\ \A k \in 1..N : spawns[k] > 0 => \A j \in 1..(k - 1) : Finished(j)
    /\ \A k \in 1..N : probe[k] = "Running" => (i = k /\ pc = "running")
    /\ \A k \in 1..N : Recorded(k) <=> StdoutStatusIdx(k) # {}
    /\ \A a \in 1..N, b \in 1..N :
          \A x \in StdoutStatusIdx(a), y \in StdoutStatusIdx(b) : x < y => a < b

\* C9: every tool's command is spawned at most once, a probe that reached
\* Succeeded or Failed keeps that state, and an entry of the report is never
\* changed or removed once written.
C9_ProbesAreOneShot ==
    /\ [](\A k \in 1..N : spawns[k] <= 1)
    /\ [][ /\ \A k \in 1..N : Finished(k) => probe'[k] = probe[k]
           /\ \A j \in 1..Len(results) :
                 Len(results') >= j /\ results'[j] = results[j] ]_vars

C9_Witness ==
    /\ pc = "done"
    /\ outcome[1].kind = "TimeoutExpired"
    /\ spawns[1] = 1
    /\ ~Available(1)

\* C10: a detail line is printed for a tool exactly when the tool is
\* available, right after its success line, and its text is the captured
\* standard output up to the first newline; no other detail line is printed.
C10_DetailIffAvailableAndFirstLine ==
    /\ \A j \in DetailIdx : j > 1 /\ Printed[j - 1].fmt = FmtInstalled
    /\ \A k \in 1..N :
          /\ Available(k) <=> DetailIdxOf(k) # {}
          /\ Cardinality(DetailIdxOf(k)) <= 1
          /\ \A j \in DetailIdxOf(k) :
                IsTextBeforeFirstNewline(Printed[j].text, outcome[k].stdout)

C10_Witness ==
    /\ outcome[1].stdout = <<"v", "\n", "v">>
    /\ Available(1)
    /\ \E j \in DetailIdxOf(1) : Printed[j].text = <<"v">>
    /\ Probed(2) /\ ~Available(2)
====
